---- MODULE Spec2Model ----
(***************************************************************************)
(* Register access layer of the HTS221 driver (src/src/device.rs).         *)
(*                                                                         *)
(* One caller talks to the chip through the I2C trait.  The caller builds  *)
(* a register wrapper with new (one blocking write_read), reads and        *)
(* mutates the wrapper's snapshot with the accessor methods, and commits   *)
(* it with modify (one blocking write).  The chip is a register file       *)
(* behind the transport; the transport may fail any transaction.           *)
(***************************************************************************)
EXTENDS Integers, Sequences, FiniteSets, TLC

VARIABLES
    kind,   \* the wrapper type the caller works with
    chip,   \* the chip's register file: sub-address -> byte
    live,   \* TRUE when the latest constructor call returned Ok(wrapper)
    self,   \* the wrapper's content: self.0, or the Calibration struct
    op,     \* the latest call: [name, arg, f]
    ret,    \* what the latest call returned: [tag, val]
    bus     \* the bus transactions the latest call issued, in order

vars == <<kind, chip, live, self, op, ret, bus>>

----------------------------------------------------------------------------
(* Bounds of the model.                                                    *)

\* number of setter calls a closure handed to modify makes, at most
MaxCalls == 1

\* number of distinct failure values the transport can report
NumErrors == 2

----------------------------------------------------------------------------
(* u8 / u16 / i16 arithmetic as Rust computes it.                          *)

Byte == 0..255

RECURSIVE BitAndN(_, _, _)
BitAndN(x, y, n) ==
    IF n = 0 THEN 0
    ELSE (x % 2) * (y % 2) + 2 * BitAndN(x \div 2, y \div 2, n - 1)

\* a & b on 16 bits or fewer
And(x, y) ==
    IF x < 256 \/ y < 256 THEN BitAndN(x % 256, y % 256, 8)
    ELSE BitAndN(x, y, 16)

\* a | b
Or(x, y) == x + y - And(x, y)

\* !a on u8
Not8(x) == 255 - x

\* a << n on u8: the bits shifted out are lost (n < 8 at every use, so the
\* shift amount never overflows)
Shl8(x, n) == (x * (2 ^ n)) % 256

\* a << n on u16 / i16 bit patterns: the bits shifted out are lost
Shl16(x, n) == (x * (2 ^ n)) % 65536

\* a >> n on an unsigned value
Shr(x, n) == x \div (2 ^ n)

\* the i16 whose two's-complement bit pattern is p
AsI16(p) == IF p >= 32768 THEN p - 65536 ELSE p

\* bit i of x, 0 or 1
BitOf(x, i) == (x \div (2 ^ i)) % 2

----------------------------------------------------------------------------
(* Constants of the source.                                                *)

I2C_ID == 95

who_am_i_ADDR == 15

av_conf_ADDR == 16
H_MASK == 7
H_OFFSET == 0
T_MASK == 7
T_OFFSET == 3

cr1_ADDR == 32
PD_BIT == 7
BDU_BIT == 2
ODR_MASK == 3
ODR_OFFSET == 0

cr2_ADDR == 33
BOOT_BIT == 7
HEATER_BIT == 1
ONE_SHOT_BIT == 0

cr3_ADDR == 34
DRDY_H_L_BIT == 7
PP_OD_BIT == 6
DRDY_BIT == 2

status_ADDR == 39
HUMIDITY_BIT == 1
TEMPERATURE_BIT == 0

\* the humidity output address without the auto-increment bit
h_out_ADDR_plain == Or(0, 40)

\* 0x80 | 0x28
h_out_ADDR == Or(128, 40)

\* 0x80 | 0x2A
t_out_ADDR == Or(128, 42)

\* 0x80 | 0x30
calibration_ADDR == Or(128, 48)

\* enum AvgH, and `samples as u8`
AvgH == {"Avg4", "Avg8", "Avg16", "Avg32", "Avg64", "Avg128", "Avg256", "Avg512"}

AvgH_as_u8(samples) ==
    CASE samples = "Avg4" -> 0
      [] samples = "Avg8" -> 1
      [] samples = "Avg16" -> 2
      [] samples = "Avg32" -> 3
      [] samples = "Avg64" -> 4
      [] samples = "Avg128" -> 5
      [] samples = "Avg256" -> 6
      [] samples = "Avg512" -> 7

\* enum AvgT, and `samples as u8`
AvgT == {"Avg2", "Avg4", "Avg8", "Avg16", "Avg32", "Avg64", "Avg128", "Avg256"}

AvgT_as_u8(samples) ==
    CASE samples = "Avg2" -> 0
      [] samples = "Avg4" -> 1
      [] samples = "Avg8" -> 2
      [] samples = "Avg16" -> 3
      [] samples = "Avg32" -> 4
      [] samples = "Avg64" -> 5
      [] samples = "Avg128" -> 6
      [] samples = "Avg256" -> 7

\* enum cr1::DataRate, and `rate as u8`
DataRate == {"OneShot", "Continuous1Hz", "Continuous7Hz", "Continuous12_5Hz"}

DataRate_as_u8(rate) ==
    CASE rate = "OneShot" -> 0
      [] rate = "Continuous1Hz" -> 1
      [] rate = "Continuous7Hz" -> 2
      [] rate = "Continuous12_5Hz" -> 3

----------------------------------------------------------------------------
(* The wrapper types.                                                      *)

ByteKinds == {"WhoAmI", "AvConf", "CtrlReg1", "CtrlReg2", "CtrlReg3", "StatusReg"}

PairKinds == {"HumidityOut", "TemperatureOut"}

Kinds == ByteKinds \cup PairKinds \cup {"Calibration"}

\* the wrappers that have a modify method
Writable == {"AvConf", "CtrlReg1", "CtrlReg2", "CtrlReg3"}

\* the sub-address a wrapper's constructor (and modify) hands to the primitives
ADDR(k) ==
    CASE k = "WhoAmI" -> who_am_i_ADDR
      [] k = "AvConf" -> av_conf_ADDR
      [] k = "CtrlReg1" -> cr1_ADDR
      [] k = "CtrlReg2" -> cr2_ADDR
      [] k = "CtrlReg3" -> cr3_ADDR
      [] k = "StatusReg" -> status_ADDR
      [] k = "HumidityOut" -> h_out_ADDR
      [] k = "TemperatureOut" -> t_out_ADDR
      [] k = "Calibration" -> calibration_ADDR

----------------------------------------------------------------------------
(* The transport (trait I2C) and the chip behind it.                       *)

\* the failure values of the transport (I2C::Error)
Errors == 1..NumErrors

\* outcome of one transaction: 0 is success, e \in Errors is Err(e)
Outcomes == {0} \cup Errors

\* the sub-addresses of the chip's registers the driver names
ChipAddrs == {15, 16, 32, 33, 34, 39, 40, 41, 42, 43} \cup (48..63)

\* the record of one write on the bus: the peer, the bytes sent, and what
\* the transport reported (res)
WriteXfer(dev_addr, bytes, io) ==
    [call |-> "write", dev |-> dev_addr, bytes |-> bytes, len |-> 0, res |-> io]

\* the record of one write_read on the bus: len is the buffer's length
WriteReadXfer(dev_addr, bytes, len, io) ==
    [call |-> "write_read", dev |-> dev_addr, bytes |-> bytes, len |-> len,
     res |-> io]

\* what the chip answers to a read of len bytes at sub-address bytes[1]:
\* with bit 7 of the sub-address set the register address auto-increments
Response(c, bytes, len) ==
    [i \in 1..len |->
        LET base == bytes[1] % 128
            a == IF bytes[1] >= 128 THEN base + (i - 1) ELSE base
        IN  IF a \in ChipAddrs THEN c[a] ELSE 0]

\* I2C::write: a failed transaction leaves the chip as it was
write(c, dev_addr, bytes, io) ==
    [tag  |-> IF io = 0 THEN "Ok" ELSE "Err",
     err  |-> io,
     chip |-> IF io = 0 /\ dev_addr = I2C_ID /\ Len(bytes) = 2
                        /\ bytes[1] \in ChipAddrs
              THEN [c EXCEPT ![bytes[1]] = bytes[2]]
              ELSE c,
     bus  |-> <<WriteXfer(dev_addr, bytes, io)>>]

\* I2C::write_read: fills the buffer of len bytes in one transaction
write_read(c, dev_addr, bytes, len, io) ==
    [tag  |-> IF io = 0 THEN "Ok" ELSE "Err",
     err  |-> io,
     data |-> IF io = 0 /\ dev_addr = I2C_ID
              THEN Response(c, bytes, len)
              ELSE [i \in 1..len |-> 0],
     bus  |-> <<WriteReadXfer(dev_addr, bytes, len, io)>>]

----------------------------------------------------------------------------
(* Register primitives.                                                    *)

\* read_register that drops the transport's failure and returns the buffer
read_register_swallow(c, addr, io) ==
    LET r == write_read(c, I2C_ID, <<addr>>, 1, io)
    IN  [tag |-> "Ok", val |-> r.data[1], bus |-> r.bus]

read_register(c, addr, io) ==
    LET r == write_read(c, I2C_ID, <<addr>>, 1, io)
    IN  IF r.tag = "Err"
        THEN [tag |-> "Err", val |-> r.err, bus |-> r.bus]
        ELSE [tag |-> "Ok", val |-> r.data[1], bus |-> r.bus]

write_register(c, addr, bits, io) ==
    write(c, I2C_ID, <<addr, bits>>, io)

\* read_register_pair that takes the high byte first
read_register_pair_big_endian(c, addr, io) ==
    LET r == write_read(c, I2C_ID, <<addr>>, 2, io)
    IN  IF r.tag = "Err"
        THEN [tag |-> "Err", val |-> r.err, bus |-> r.bus]
        ELSE [tag |-> "Ok",
              val |-> AsI16(Or(Shl16(r.data[1], 8), r.data[2])),
              bus |-> r.bus]

read_register_pair(c, addr, io) ==
    LET r == write_read(c, I2C_ID, <<addr>>, 2, io)
    IN  IF r.tag = "Err"
        THEN [tag |-> "Err", val |-> r.err, bus |-> r.bus]
        ELSE [tag |-> "Ok",
              val |-> AsI16(Or(Shl16(r.data[2], 8), r.data[1])),
              bus |-> r.bus]

----------------------------------------------------------------------------
(* Constructors: each is one blocking read.                                *)

\* WhoAmI::new, AvConf::new, CtrlReg1::new, CtrlReg2::new, CtrlReg3::new,
\* StatusReg::new: the wrapper holds the byte read
ByteReg_new(c, k, io) == read_register(c, ADDR(k), io)

\* HumidityOut::new, TemperatureOut::new: the wrapper holds the i16 read
PairReg_new(c, k, io) == read_register_pair(c, ADDR(k), io)

\* the decode with the T1 high bits left unshifted
Calibration_decode_unshifted(data) ==
    [h0_rh_x2    |-> data[1],
     h1_rh_x2    |-> data[2],
     t0_deg_c_x8 |-> Or(Shl16(And(data[6], 3), 8), data[3]),
     t1_deg_c_x8 |-> Or(Shl16(And(data[6], 12), 8), data[4]),
     h0_t0_out   |-> AsI16(Or(Shl16(data[8], 8), data[7])),
     h1_t0_out   |-> AsI16(Or(Shl16(data[12], 8), data[11])),
     t0_out      |-> AsI16(Or(Shl16(data[14], 8), data[13])),
     t1_out      |-> AsI16(Or(Shl16(data[16], 8), data[15]))]

\* the Calibration struct decoded from the 16 bytes read (data is 1-based
\* here: data[i + 1] is the source's data[i])
Calibration_decode(data) ==
    [h0_rh_x2    |-> data[1],
     h1_rh_x2    |-> data[2],
     t0_deg_c_x8 |-> Or(Shl16(And(data[6], 3), 8), data[3]),
     t1_deg_c_x8 |-> Or(Shl16(Shr(And(data[6], 12), 2), 8), data[4]),
     h0_t0_out   |-> AsI16(Or(Shl16(data[8], 8), data[7])),
     h1_t0_out   |-> AsI16(Or(Shl16(data[12], 8), data[11])),
     t0_out      |-> AsI16(Or(Shl16(data[14], 8), data[13])),
     t1_out      |-> AsI16(Or(Shl16(data[16], 8), data[15]))]

Calibration_new(c, io) ==
    LET r == write_read(c, I2C_ID, <<calibration_ADDR>>, 16, io)
    IN  IF r.tag = "Err"
        THEN [tag |-> "Err", val |-> r.err, bus |-> r.bus]
        ELSE [tag |-> "Ok", val |-> Calibration_decode(r.data), bus |-> r.bus]

\* K::new(comm) for wrapper type k
Construct(c, k, io) ==
    IF k \in ByteKinds THEN ByteReg_new(c, k, io)
    ELSE IF k \in PairKinds THEN PairReg_new(c, k, io)
    ELSE Calibration_new(c, io)

----------------------------------------------------------------------------
(* Accessors: pure functions of the snapshot.                              *)

device_id(bits) == bits

humidity_samples_averaged(bits) ==
    LET code == And(Shr(bits, H_OFFSET), H_MASK)
    IN  CASE code = 0 -> 4
          [] code = 1 -> 8
          [] code = 2 -> 16
          [] code = 3 -> 32
          [] code = 4 -> 64
          [] code = 5 -> 128
          [] code = 6 -> 256
          [] code = 7 -> 512
          [] OTHER -> "panic"

\* set_humidity_samples_averaged without clearing the field first
set_humidity_samples_averaged_or_only(bits, samples) ==
    Or(bits, Shl8(AvgH_as_u8(samples), H_OFFSET))

set_humidity_samples_averaged(bits, samples) ==
    Or(And(bits, Not8(Shl8(H_MASK, H_OFFSET))),
       Shl8(AvgH_as_u8(samples), H_OFFSET))

temperature_samples_averaged(bits) ==
    LET code == And(Shr(bits, T_OFFSET), T_MASK)
    IN  CASE code = 0 -> 2
          [] code = 1 -> 4
          [] code = 2 -> 8
          [] code = 3 -> 16
          [] code = 4 -> 32
          [] code = 5 -> 64
          [] code = 6 -> 128
          [] code = 7 -> 256
          [] OTHER -> "panic"

set_temperature_samples_averaged(bits, samples) ==
    Or(And(bits, Not8(Shl8(T_MASK, T_OFFSET))),
       Shl8(AvgT_as_u8(samples), T_OFFSET))

is_powered_up(bits) == And(bits, PD_BIT) > 0

\* power_down with the bit number used as the mask
power_down_unshifted(bits) == And(bits, Not8(PD_BIT))

power_down(bits) == And(bits, Not8(Shl8(1, PD_BIT)))

power_up(bits) == Or(bits, Shl8(1, PD_BIT))

is_block_update(bits) == And(bits, BDU_BIT) > 0

set_continuous_update(bits) == And(bits, Not8(Shl8(1, BDU_BIT)))

set_block_update(bits) == Or(bits, Shl8(1, BDU_BIT))

data_rate(bits) ==
    LET code == And(Shr(bits, ODR_OFFSET), ODR_MASK)
    IN  CASE code = 0 -> "OneShot"
          [] code = 1 -> "Continuous1Hz"
          [] code = 2 -> "Continuous7Hz"
          [] code = 3 -> "Continuous12_5Hz"
          [] OTHER -> "panic"

\* set_data_rate without clearing the field first
set_data_rate_or_only(bits, rate) ==
    Or(bits, Shl8(DataRate_as_u8(rate), ODR_OFFSET))

set_data_rate(bits, rate) ==
    Or(And(bits, Not8(Shl8(ODR_MASK, ODR_OFFSET))),
       Shl8(DataRate_as_u8(rate), ODR_OFFSET))

is_booting(bits) == And(bits, BOOT_BIT) > 0

boot(bits) == Or(bits, Shl8(1, BOOT_BIT))

is_heater_on(bits) == And(bits, HEATER_BIT) > 0

set_heater_on(bits) == Or(bits, Shl8(1, HEATER_BIT))

set_heater_off(bits) == And(bits, Not8(Shl8(1, HEATER_BIT)))

is_one_shot(bits) == And(bits, ONE_SHOT_BIT) > 0

set_one_shot(bits) == Or(bits, Shl8(1, ONE_SHOT_BIT))

data_ready_high(bits) == And(bits, Not8(Shl8(1, DRDY_H_L_BIT)))

data_ready_low(bits) == Or(bits, Shl8(1, DRDY_H_L_BIT))

data_ready_push_pull(bits) == And(bits, Not8(Shl8(1, PP_OD_BIT)))

data_ready_open_drain(bits) == Or(bits, Shl8(1, PP_OD_BIT))

data_ready_disable(bits) == And(bits, Not8(Shl8(1, DRDY_BIT)))

data_ready_enable(bits) == Or(bits, Shl8(1, DRDY_BIT))

humidity_data_available(bits) == And(bits, Shl8(1, HUMIDITY_BIT)) > 0

temperature_data_available(bits) == And(bits, Shl8(1, TEMPERATURE_BIT)) > 0

\* HumidityOut::value, TemperatureOut::value
value(v) == v

----------------------------------------------------------------------------
(* The calls a caller can make on each wrapper type.                       *)

\* a setter call: [name, arg]; arg is "" when the method takes none
Call(name, arg) == [name |-> name, arg |-> arg]

Setters(k) ==
    CASE k = "AvConf" ->
            {Call("set_humidity_samples_averaged", s) : s \in AvgH}
            \cup {Call("set_temperature_samples_averaged", s) : s \in AvgT}
      [] k = "CtrlReg1" ->
            {Call(n, "") : n \in {"power_down", "power_up",
                                  "set_continuous_update", "set_block_update"}}
            \cup {Call("set_data_rate", r) : r \in DataRate}
      [] k = "CtrlReg2" ->
            {Call(n, "") : n \in {"boot", "set_heater_on", "set_heater_off",
                                  "set_one_shot"}}
      [] k = "CtrlReg3" ->
            {Call(n, "") : n \in {"data_ready_high", "data_ready_low",
                                  "data_ready_push_pull", "data_ready_open_drain",
                                  "data_ready_disable", "data_ready_enable"}}
      [] OTHER -> {}

Getters(k) ==
    CASE k = "WhoAmI" -> {"device_id"}
      [] k = "AvConf" -> {"humidity_samples_averaged",
                          "temperature_samples_averaged"}
      [] k = "CtrlReg1" -> {"is_powered_up", "is_block_update", "data_rate"}
      [] k = "CtrlReg2" -> {"is_booting", "is_heater_on", "is_one_shot"}
      [] k = "StatusReg" -> {"humidity_data_available",
                             "temperature_data_available"}
      [] k \in PairKinds -> {"value"}
      [] OTHER -> {}

\* the snapshot after setter call s on snapshot bits
ApplySetter(s, bits) ==
    CASE s.name = "set_humidity_samples_averaged" ->
            set_humidity_samples_averaged(bits, s.arg)
      [] s.name = "set_temperature_samples_averaged" ->
            set_temperature_samples_averaged(bits, s.arg)
      [] s.name = "power_down" -> power_down(bits)
      [] s.name = "power_up" -> power_up(bits)
      [] s.name = "set_continuous_update" -> set_continuous_update(bits)
      [] s.name = "set_block_update" -> set_block_update(bits)
      [] s.name = "set_data_rate" -> set_data_rate(bits, s.arg)
      [] s.name = "boot" -> boot(bits)
      [] s.name = "set_heater_on" -> set_heater_on(bits)
      [] s.name = "set_heater_off" -> set_heater_off(bits)
      [] s.name = "set_one_shot" -> set_one_shot(bits)
      [] s.name = "data_ready_high" -> data_ready_high(bits)
      [] s.name = "data_ready_low" -> data_ready_low(bits)
      [] s.name = "data_ready_push_pull" -> data_ready_push_pull(bits)
      [] s.name = "data_ready_open_drain" -> data_ready_open_drain(bits)
      [] s.name = "data_ready_disable" -> data_ready_disable(bits)
      [] s.name = "data_ready_enable" -> data_ready_enable(bits)

\* what getter g returns on snapshot bits
ApplyGetter(g, bits) ==
    CASE g = "device_id" -> device_id(bits)
      [] g = "humidity_samples_averaged" -> humidity_samples_averaged(bits)
      [] g = "temperature_samples_averaged" -> temperature_samples_averaged(bits)
      [] g = "is_powered_up" -> is_powered_up(bits)
      [] g = "is_block_update" -> is_block_update(bits)
      [] g = "data_rate" -> data_rate(bits)
      [] g = "is_booting" -> is_booting(bits)
      [] g = "is_heater_on" -> is_heater_on(bits)
      [] g = "is_one_shot" -> is_one_shot(bits)
      [] g = "humidity_data_available" -> humidity_data_available(bits)
      [] g = "temperature_data_available" -> temperature_data_available(bits)
      [] g = "value" -> value(bits)

\* f(self) makes setter calls on the wrapper, in order: a closure is the
\* sequence of its calls
IsClosure(f, k) == \A i \in 1..Len(f) : f[i] \in Setters(k)

\* f(self): the snapshot after the closure's calls
RECURSIVE ApplyClosure(_, _)
ApplyClosure(f, bits) ==
    IF f = <<>> THEN bits
    ELSE ApplyClosure(Tail(f), ApplySetter(Head(f), bits))

----------------------------------------------------------------------------
(* The chip contents a run can start from.                                 *)

ZeroChip == [a \in ChipAddrs |-> 0]

\* the 16-byte calibration fixture of the documentation
Fixture == <<64, 128, 10, 20, 0, 5, 0, 0, 50, 0, 60, 0, 70, 0, 80, 0>>

\* calibration blocks: the fixture, and blocks whose bytes vary with x
CalBlocks ==
    {Fixture} \cup {[i \in 1..16 |-> (x * (2 * i + 1) + 17 * i) % 256] : x \in Byte}

\* the chips whose register(s) behind wrapper type k hold bytes of B (a
\* calibration block of CalBlocks for Calibration), every other register 0
Chips(k, B) ==
    IF k \in ByteKinds
    THEN {[ZeroChip EXCEPT ![ADDR(k)] = b] : b \in B}
    ELSE IF k \in PairKinds
    THEN {[ZeroChip EXCEPT ![ADDR(k) % 128] = lo, ![(ADDR(k) % 128) + 1] = hi] :
            lo \in B, hi \in B}
    ELSE {[a \in ChipAddrs |-> IF a >= 48 THEN blk[a - 47] ELSE 0] :
            blk \in CalBlocks}

\* register bytes the bus protocol is explored from
SampleBytes == {0, 7, 90, 128, 165, 255}

\* setter calls the bus protocol is explored with
SampleSetters ==
    {Call("set_humidity_samples_averaged", s) : s \in {"Avg4", "Avg512"}}
    \cup {Call("set_temperature_samples_averaged", s) : s \in {"Avg16"}}
    \cup {Call("set_data_rate", r) : r \in {"Continuous7Hz"}}
    \cup {Call(n, "") : n \in
            {"power_down", "power_up",
             "boot", "set_heater_on", "set_heater_off", "set_one_shot",
             "data_ready_high", "data_ready_low", "data_ready_enable"}}

\* the closures handed to modify: up to MaxCalls calls of SampleSetters
RECURSIVE CallSeqs(_, _)
CallSeqs(S, n) ==
    IF n = 0 THEN {<<>>}
    ELSE LET shorter == CallSeqs(S, n - 1)
         IN  shorter \cup {Append(f, s) : f \in shorter, s \in S}

SampleClosures ==
    UNION {CallSeqs(SampleSetters \cap Setters(k), MaxCalls) : k \in Writable}

----------------------------------------------------------------------------
(* The state machine.                                                      *)

NoCall == [name |-> "", arg |-> "", f |-> <<>>]

Init ==
    /\ kind \in Kinds
    /\ chip \in Chips(kind, SampleBytes)
    /\ live = FALSE
    /\ self = 0
    /\ op = NoCall
    /\ ret = [tag |-> "", val |-> 0]
    /\ bus = <<>>

\* let w = K::new(comm): one blocking read; Err(e) carries no wrapper
New(io) ==
    LET r == Construct(chip, kind, io)
    IN  /\ live' = (r.tag = "Ok")
        /\ self' = IF r.tag = "Ok" THEN r.val ELSE 0
        /\ ret' = [tag |-> r.tag, val |-> IF r.tag = "Ok" THEN 0 ELSE r.val]
        /\ bus' = r.bus
        /\ op' = [NoCall EXCEPT !.name = "new"]
        /\ UNCHANGED <<kind, chip>>

\* a setter that also writes the snapshot to the chip
Setter_commits(s) ==
    /\ live
    /\ s \in Setters(kind)
    /\ LET r == write_register(chip, ADDR(kind), ApplySetter(s, self), 0)
       IN  /\ self' = ApplySetter(s, self)
           /\ chip' = r.chip
           /\ bus' = r.bus
    /\ ret' = [tag |-> "unit", val |-> 0]
    /\ op' = [NoCall EXCEPT !.name = s.name, !.arg = s.arg]
    /\ UNCHANGED <<kind, live>>

\* w.setter(..) called directly on the wrapper, outside modify
Setter(s) ==
    /\ live
    /\ s \in Setters(kind)
    /\ self' = ApplySetter(s, self)
    /\ ret' = [tag |-> "unit", val |-> 0]
    /\ bus' = <<>>
    /\ op' = [NoCall EXCEPT !.name = s.name, !.arg = s.arg]
    /\ UNCHANGED <<kind, chip, live>>

\* w.getter()
Getter(g) ==
    /\ live
    /\ g \in Getters(kind)
    /\ ret' = [tag |-> "val", val |-> ApplyGetter(g, self)]
    /\ bus' = <<>>
    /\ op' = [NoCall EXCEPT !.name = g]
    /\ UNCHANGED <<kind, chip, live, self>>

\* modify that writes the snapshot as it was before f(self)
Modify_stale(f, io) ==
    /\ live
    /\ kind \in Writable
    /\ IsClosure(f, kind)
    /\ LET r == write_register(chip, ADDR(kind), self, io)
       IN  /\ self' = ApplyClosure(f, self)
           /\ chip' = r.chip
           /\ bus' = r.bus
           /\ ret' = [tag |-> r.tag, val |-> r.err]
    /\ op' = [NoCall EXCEPT !.name = "modify", !.f = f]
    /\ UNCHANGED <<kind, live>>

\* w.modify(comm, f): f(self), then write_register(comm, ADDR, self.0)
Modify(f, io) ==
    /\ live
    /\ kind \in Writable
    /\ IsClosure(f, kind)
    /\ LET bits == ApplyClosure(f, self)
           r == write_register(chip, ADDR(kind), bits, io)
       IN  /\ self' = bits
           /\ chip' = r.chip
           /\ bus' = r.bus
           /\ ret' = [tag |-> r.tag, val |-> r.err]
    /\ op' = [NoCall EXCEPT !.name = "modify", !.f = f]
    /\ UNCHANGED <<kind, live>>

AllSetters == UNION {Setters(k) : k \in Kinds}

AllGetters == UNION {Getters(k) : k \in Kinds}

\* The bus protocol: every call of every wrapper type, from SampleBytes.
Next ==
    \/ \E io \in Outcomes : New(io)
    \/ \E s \in SampleSetters : Setter(s)
    \/ \E g \in AllGetters : Getter(g)
    \/ \E f \in SampleClosures, io \in Outcomes : Modify(f, io)

Spec == Init /\ [][Next]_vars

\* The accessors of the one-byte wrappers, from the state right after a
\* successful construction that read any byte: every setter with every
\* argument, every getter.
InitAccess ==
    /\ kind \in ByteKinds
    /\ chip \in Chips(kind, Byte)
    /\ LET r == Construct(chip, kind, 0)
       IN  /\ live = TRUE
           /\ self = r.val
           /\ ret = [tag |-> "Ok", val |-> 0]
           /\ bus = r.bus
    /\ op = [NoCall EXCEPT !.name = "new"]

NextAccess ==
    \/ \E s \in AllSetters : Setter(s)
    \/ \E g \in AllGetters : Getter(g)

SpecAccess == InitAccess /\ [][NextAccess]_vars

\* The paired output registers, from every pair of register bytes.
InitPair ==
    /\ kind \in PairKinds
    /\ chip \in Chips(kind, Byte)
    /\ live = FALSE
    /\ self = 0
    /\ op = NoCall
    /\ ret = [tag |-> "", val |-> 0]
    /\ bus = <<>>

NextPair ==
    \/ \E io \in Outcomes : New(io)
    \/ Getter("value")

SpecPair == InitPair /\ [][NextPair]_vars

\* The chip ends a boot or a one-shot conversion on its own: the bit the
\* caller set in control register 2 goes back to 0, with no bus transaction.
HwClear(bit) ==
    /\ bit \in {BOOT_BIT, ONE_SHOT_BIT}
    /\ BitOf(chip[cr2_ADDR], bit) = 1
    /\ chip' = [chip EXCEPT ![cr2_ADDR] = And(chip[cr2_ADDR], Not8(Shl8(1, bit)))]
    /\ UNCHANGED <<kind, live, self, op, ret, bus>>

\* Control register 2 with the chip clearing its self-clearing bits between
\* the caller's calls, from every register byte.  The caller is the
\* disciplined one: setters run only inside modify, and the transport never
\* fails, so the snapshot differs from the chip only by what the chip did.
InitHw ==
    /\ kind = "CtrlReg2"
    /\ chip \in Chips(kind, Byte)
    /\ live = FALSE
    /\ self = 0
    /\ op = NoCall
    /\ ret = [tag |-> "", val |-> 0]
    /\ bus = <<>>

NextHw ==
    \/ New(0)
    \/ \E g \in Getters("CtrlReg2") : Getter(g)
    \/ \E f \in CallSeqs(Setters("CtrlReg2"), MaxCalls) : Modify(f, 0)
    \/ \E bit \in {BOOT_BIT, ONE_SHOT_BIT} : HwClear(bit)

SpecHw == InitHw /\ [][NextHw]_vars

----------------------------------------------------------------------------
(* Properties.                                                             *)

\* the other bits of a byte: every bit but bit i agrees between a and b
SameButBit(a, b, i) == \A j \in (0..7) \ {i} : BitOf(a, j) = BitOf(b, j)

\* C1: each flag getter returns true exactly when its flag's bit is set in
\* the snapshot: is_powered_up iff bit 7, is_block_update iff bit 2,
\* is_booting iff bit 7, is_heater_on iff bit 1, is_one_shot iff bit 0.
C1_GettersReadTheirBit ==
    /\ op.name = "is_powered_up" => (ret.val <=> BitOf(self, 7) = 1)
    /\ op.name = "is_block_update" => (ret.val <=> BitOf(self, 2) = 1)
    /\ op.name = "is_booting" => (ret.val <=> BitOf(self, 7) = 1)
    /\ op.name = "is_heater_on" => (ret.val <=> BitOf(self, 1) = 1)
    /\ op.name = "is_one_shot" => (ret.val <=> BitOf(self, 0) = 1)

\* the single-bit setters of control registers 1, 2 and 3: the bit each one
\* is to set (val 1) or clear (val 0)
SingleBitOps ==
    {[name |-> "power_up", bit |-> 7, val |-> 1],
     [name |-> "power_down", bit |-> 7, val |-> 0],
     [name |-> "set_block_update", bit |-> 2, val |-> 1],
     [name |-> "set_continuous_update", bit |-> 2, val |-> 0],
     [name |-> "boot", bit |-> 7, val |-> 1],
     [name |-> "set_heater_on", bit |-> 1, val |-> 1],
     [name |-> "set_heater_off", bit |-> 1, val |-> 0],
     [name |-> "set_one_shot", bit |-> 0, val |-> 1],
     [name |-> "data_ready_low", bit |-> 7, val |-> 1],
     [name |-> "data_ready_high", bit |-> 7, val |-> 0],
     [name |-> "data_ready_open_drain", bit |-> 6, val |-> 1],
     [name |-> "data_ready_push_pull", bit |-> 6, val |-> 0],
     [name |-> "data_ready_enable", bit |-> 2, val |-> 1],
     [name |-> "data_ready_disable", bit |-> 2, val |-> 0]}

\* C2: for every snapshot byte, a single-bit set or clear operation leaves
\* its one bit at 1 (set) or 0 (clear) and every other bit of the snapshot
\* as it was before the call.
C2_SingleBitFrame ==
    [][\A b \in SingleBitOps :
          op'.name = b.name =>
             /\ BitOf(self', b.bit) = b.val
             /\ SameButBit(self', self, b.bit)]_vars

\* C2 witness: power_down on a wrapper that read 0xFF cleared bit 7 alone.
C2_Witness ==
    /\ kind = "CtrlReg1"
    /\ op.name = "power_down"
    /\ chip[cr1_ADDR] = 255
    /\ self = 127

\* C3: every modify applies the mutation function to the snapshot and then
\* issues exactly one write whose body is [register address, snapshot byte
\* after the mutation]; a modify that mutates nothing still issues one write,
\* carrying the unchanged byte (the byte read at construction when it
\* follows the constructor); after a successful modify the chip's register
\* byte equals the snapshot.
C3_ModifyCommits ==
    [][op'.name = "modify" =>
          /\ self' = ApplyClosure(op'.f, self)
          /\ Len(bus') = 1
          /\ bus'[1].call = "write"
          /\ bus'[1].bytes = <<ADDR(kind), self'>>
          /\ (op'.f = <<>> => bus'[1].bytes[2] = self)
          /\ (op'.f = <<>> /\ op.name = "new" =>
                bus'[1].bytes[2] = chip[ADDR(kind)])
          /\ (ret'.tag = "Ok" => chip'[ADDR(kind)] = self')]_vars

\* C3 witness: a successful modify of control register 2 with a closure
\* that mutates nothing wrote the byte 0xA5 the chip held all along.
C3_Witness ==
    /\ kind = "CtrlReg2"
    /\ op.name = "modify"
    /\ op.f = <<>>
    /\ ret.tag = "Ok"
    /\ Len(bus) = 1
    /\ bus[1].bytes = <<33, 165>>
    /\ chip[33] = 165

\* the calibration fixture is what the chip holds at 0x30..0x3F
FixtureOnChip ==
    \A i \in 1..16 :
        chip[47 + i] = <<64, 128, 10, 20, 0, 5, 0, 0, 50, 0, 60, 0, 70, 0, 80, 0>>[i]

\* C4 as stated: Calibration::new over the fixture returns h0_rh_x2 = 64,
\* h1_rh_x2 = 128, t0_deg_c_x8 = 266, t1_deg_c_x8 = 276, h0_t0_out = 50,
\* h1_t0_out = 60, t0_out = 70, t1_out = 80.
C4_FixtureAsStated ==
    (kind = "Calibration" /\ op.name = "new" /\ live /\ FixtureOnChip) =>
        self = [h0_rh_x2 |-> 64, h1_rh_x2 |-> 128,
                t0_deg_c_x8 |-> 266, t1_deg_c_x8 |-> 276,
                h0_t0_out |-> 50, h1_t0_out |-> 60,
                t0_out |-> 70, t1_out |-> 80]

\* C4 amended: over the fixture Calibration::new returns h0_t0_out = 0 (bytes
\* 6 and 7 of the fixture are 0; the 50 sits in bytes 8 and 9, which the
\* decode does not read) and every other field as stated.
C4_FixtureDecode ==
    (kind = "Calibration" /\ op.name = "new" /\ live /\ FixtureOnChip) =>
        self = [h0_rh_x2 |-> 64, h1_rh_x2 |-> 128,
                t0_deg_c_x8 |-> 266, t1_deg_c_x8 |-> 276,
                h0_t0_out |-> 0, h1_t0_out |-> 60,
                t0_out |-> 70, t1_out |-> 80]

\* C4 witness: Calibration::new succeeded over the fixture.
C4_Witness ==
    /\ kind = "Calibration"
    /\ op.name = "new"
    /\ live
    /\ FixtureOnChip
    /\ self.t1_deg_c_x8 = 276

\* the i16 the claim gives for response bytes lo, hi
PairValue(lo, hi) ==
    IF hi < 128 THEN hi * 256 + lo ELSE hi * 256 + lo - 65536

\* C5: for every pair of response bytes (low, high), read_register_pair, and
\* so HumidityOut::value and TemperatureOut::value, is the two's-complement
\* value of (high << 8) | low, low byte first, and a read the transport
\* completes never fails; [0xFF,0xFF] gives -1, [0x00,0x80] gives -32768,
\* [0xFF,0x7F] gives 32767.
C5_PairDecode ==
    kind \in {"HumidityOut", "TemperatureOut"} =>
        LET base == IF kind = "HumidityOut" THEN 40 ELSE 42
            lo == chip[base]
            hi == chip[base + 1]
        IN  /\ (op.name = "new" /\ bus[1].res = 0) => live
            /\ live => self = PairValue(lo, hi)
            /\ op.name = "value" => ret.val = PairValue(lo, hi)
            /\ (live /\ lo = 255 /\ hi = 255) => self = -1
            /\ (live /\ lo = 0 /\ hi = 128) => self = -32768
            /\ (live /\ lo = 255 /\ hi = 127) => self = 32767

\* C5 witness: HumidityOut::value returned -32768 for bytes [0x00, 0x80].
C5_Witness ==
    /\ kind = "HumidityOut"
    /\ op.name = "value"
    /\ chip[40] = 0
    /\ chip[41] = 128
    /\ ret.val = -32768

\* no transaction of the latest call is a write
NoWrite(b) == \A i \in 1..Len(b) : b[i].call # "write"

\* C6: no wrapper operation other than modify issues a write: constructors
\* issue only write_read, getters and setters issue no transaction, and both
\* leave the chip's registers unchanged; the read-only wrappers never write.
C6_OnlyModifyWrites ==
    [][/\ op'.name # "modify" => (NoWrite(bus') /\ chip' = chip)
       /\ op'.name = "new" =>
             \A i \in 1..Len(bus') : bus'[i].call = "write_read"
       /\ op'.name \notin {"new", "modify"} => bus' = <<>>
       /\ kind \notin {"AvConf", "CtrlReg1", "CtrlReg2", "CtrlReg3"} =>
             (NoWrite(bus') /\ chip' = chip)]_vars

\* C6 witness: power_up called outside modify changed the snapshot, issued
\* no transaction and left the chip's register at 0x5A.
C6_Witness ==
    /\ kind = "CtrlReg1"
    /\ op.name = "power_up"
    /\ bus = <<>>
    /\ self = 218
    /\ chip[32] = 90

\* C7: when the transport reports a failure, the operation returns that same
\* failure after exactly one transaction; a failing constructor produces no
\* wrapper, a failing modify leaves the chip's register at its prior value.
C7_FailurePropagates ==
    [][/\ \A i \in 1..Len(bus') :
             bus'[i].res # 0 =>
                (Len(bus') = 1 /\ ret' = [tag |-> "Err", val |-> bus'[i].res])
       /\ ret'.tag = "Err" => (Len(bus') = 1 /\ bus'[1].res = ret'.val)
       /\ (op'.name = "new" /\ ret'.tag = "Err") => ~live'
       /\ (op'.name = "modify" /\ ret'.tag = "Err") => chip' = chip]_vars

\* C7 witness: a modify whose write failed with error 2 returned Err(2); the
\* snapshot was mutated, the chip's register kept its prior value.
C7_Witness ==
    /\ kind = "CtrlReg2"
    /\ op.name = "modify"
    /\ ret = [tag |-> "Err", val |-> 2]
    /\ Len(bus) = 1
    /\ self = 2
    /\ chip[33] = 0

\* the register address and read length of each constructor
C8_Table ==
    [WhoAmI |-> <<15, 1>>, AvConf |-> <<16, 1>>, CtrlReg1 |-> <<32, 1>>,
     CtrlReg2 |-> <<33, 1>>, CtrlReg3 |-> <<34, 1>>, StatusReg |-> <<39, 1>>,
     HumidityOut |-> <<168, 2>>, TemperatureOut |-> <<170, 2>>,
     Calibration |-> <<176, 16>>]

\* C8: every transaction is addressed to peer 0x5F; each constructor issues
\* exactly one write_read whose request body is its register's address byte
\* and whose read length is fixed; each modify writes to the address its
\* constructor read from.
C8_Addressing ==
    /\ \A i \in 1..Len(bus) : bus[i].dev = 95
    /\ op.name = "new" =>
          /\ Len(bus) = 1
          /\ bus[1].call = "write_read"
          /\ bus[1].bytes = <<C8_Table[kind][1]>>
          /\ bus[1].len = C8_Table[kind][2]
    /\ op.name = "modify" =>
          /\ Len(bus) >= 1
          /\ \A i \in 1..Len(bus) :
                bus[i].call = "write" /\ bus[i].bytes[1] = C8_Table[kind][1]

\* C8 witness: HumidityOut::new issued one write_read of 2 bytes at 0xA8.
C8_Witness ==
    /\ kind = "HumidityOut"
    /\ op.name = "new"
    /\ bus = <<[call |-> "write_read", dev |-> 95, bytes |-> <<168>>,
               len |-> 2, res |-> 0]>>

\* the sample counts of the averaging levels
C9_HCount ==
    [Avg4 |-> 4, Avg8 |-> 8, Avg16 |-> 16, Avg32 |-> 32, Avg64 |-> 64,
     Avg128 |-> 128, Avg256 |-> 256, Avg512 |-> 512]

C9_TCount ==
    [Avg2 |-> 2, Avg4 |-> 4, Avg8 |-> 8, Avg16 |-> 16, Avg32 |-> 32,
     Avg64 |-> 64, Avg128 |-> 128, Avg256 |-> 256]

\* C9: for every prior snapshot byte and level, the getter called after
\* set_humidity_samples_averaged(level) returns the level's sample count,
\* likewise for temperature; setting one field does not change the value
\* decoded from the other field.
C9_AveragingRoundTrip ==
    [][/\ (op.name = "set_humidity_samples_averaged"
             /\ op'.name = "humidity_samples_averaged") =>
                ret'.val = C9_HCount[op.arg]
       /\ (op.name = "set_temperature_samples_averaged"
             /\ op'.name = "temperature_samples_averaged") =>
                ret'.val = C9_TCount[op.arg]
       /\ op'.name = "set_humidity_samples_averaged" =>
             /\ humidity_samples_averaged(self') = C9_HCount[op'.arg]
             /\ temperature_samples_averaged(self')
                   = temperature_samples_averaged(self)
       /\ op'.name = "set_temperature_samples_averaged" =>
             /\ temperature_samples_averaged(self') = C9_TCount[op'.arg]
             /\ humidity_samples_averaged(self')
                   = humidity_samples_averaged(self)]_vars

\* C9 witness: on a wrapper that read 0xFF, humidity_samples_averaged
\* returned 8 after set_humidity_samples_averaged(Avg8).
C9_Witness ==
    /\ kind = "AvConf"
    /\ op.name = "humidity_samples_averaged"
    /\ ret.val = 8
    /\ chip[16] = 255
    /\ self = 249

\* C10: for every prior snapshot byte and data rate, data_rate() called
\* after set_data_rate(rate) returns rate; set_data_rate leaves bits 2..7
\* unchanged; data_rate() never reaches its panic arm.
C10_DataRateRoundTrip ==
    [][/\ (op.name = "set_data_rate" /\ op'.name = "data_rate") =>
             ret'.val = op.arg
       /\ op'.name = "set_data_rate" =>
             /\ data_rate(self') = op'.arg
             /\ \A j \in 2..7 : BitOf(self', j) = BitOf(self, j)
       /\ op'.name = "data_rate" =>
             ret'.val \in {"OneShot", "Continuous1Hz", "Continuous7Hz",
                           "Continuous12_5Hz"}]_vars

\* C10 witness: on a wrapper that read 0xFF, data_rate() returned OneShot
\* after set_data_rate(OneShot).
C10_Witness ==
    /\ kind = "CtrlReg1"
    /\ op.name = "data_rate"
    /\ ret.val = "OneShot"
    /\ chip[32] = 255
    /\ self = 252

\* the bits of the register the calls of closure f are to set or clear
TouchedBits(f) ==
    {b.bit : b \in {x \in SingleBitOps : \E i \in 1..Len(f) : f[i].name = x.name}}

\* C11: in every reachable state, also after the chip has cleared the boot
\* or one-shot bit on its own, a successful modify leaves every bit of the
\* chip's register that its mutation function did not touch at the value the
\* chip held immediately before the write.
C11_CommitKeepsUntouchedBits ==
    [][(kind = "CtrlReg2" /\ op'.name = "modify" /\ ret'.tag = "Ok") =>
          \A j \in (0..7) \ TouchedBits(op'.f) :
              BitOf(chip'[33], j) = BitOf(chip[33], j)]_vars

====
